---- MODULE Spec2Model ----
(***************************************************************************)
(* Live-session lifecycle and join coordination of the quiz portal.        *)
(*                                                                         *)
(* The store tables (live_quiz_sessions, quiz_waitlist,                    *)
(* private_quiz_participants) are shared state.  The host views            *)
(* (LiveQuizManager) and the student tabs (StudentDashboard,               *)
(* LiveQuizLobby) are clients whose handlers are async functions: every    *)
(* await is one atomic step at the store, and the handlers of different    *)
(* clients, or two runs of one handler, interleave between awaits.         *)
(*                                                                         *)
(* Spec     is Host Control: the host views start, delete and end a        *)
(*          session while the clock advances.                              *)
(* SpecJoin is the Join Coordinator: student tabs enter the lobby          *)
(*          (ensureUserInWaitlist) and redeem private codes                *)
(*          (joinPrivateQuiz).  These handlers only read the session row,  *)
(*          so SpecJoin draws it from the rows Spec reaches.               *)
(***************************************************************************)
EXTENDS Integers, Sequences, FiniteSets, TLC

\* ---------------------------------------------------------------- bounds
\* last instant of the clock
MaxTime == 3
\* host button clicks in one behaviour
MaxHostOps == 2
\* student tabs; odd tabs belong to student u1, even tabs to u2
NumTabs == 3
\* last instant of the clock of the student view
MaxLobbyTime == 4
\* button clicks of the students in one behaviour
MaxStudentOps == 3

\* ------------------------------------------------------------- constants
\* null / undefined of an optional instant (scheduled_start?: Date, started_at: string | null)
Null == 0
\* null of join_code / private_join_code
NullCode == <<>>
\* 30 * 60 * 1000 ms, the "starting soon" window; one instant is 30 minutes
SoonWindow == 1

Sessions == {"s1"}
HostViews == {"h1", "h2"}
Students == {"u1", "u2"}
Tabs == 1..NumTabs
Times == 1..MaxTime

\* live_quiz_status enum
Statuses == {"waiting", "in_progress", "completed"}

\* ------------------------------------------------------------ join codes
\* A code is a sequence of characters.
Upper(c) == CASE c = "a" -> "A" [] c = "b" -> "B" [] c = "c" -> "C" [] OTHER -> c

\* String.prototype.toUpperCase
ToUpperCase(str) == [i \in 1..Len(str) |-> Upper(str[i])]

RECURSIVE TrimStart(_)
TrimStart(str) ==
    IF str # <<>> /\ Head(str) = " " THEN TrimStart(Tail(str)) ELSE str

RECURSIVE TrimEnd(_)
TrimEnd(str) ==
    IF str # <<>> /\ str[Len(str)] = " " THEN TrimEnd(SubSeq(str, 1, Len(str) - 1)) ELSE str

\* String.prototype.trim
Trim(str) == TrimEnd(TrimStart(str))

\* generateJoinCode / generatePrivateJoinCode: upper-case base-36 digits
generateJoinCode == <<"A", "C">>
generatePrivateJoinCode == <<"A", "B">>

\* What a student may type into the private-code dialog.
InputCodes ==
    {<<" ">>, <<"A", "B">>, <<" ", "a", "b", " ">>, <<"A", "C">>, <<"A", " ", "B">>}

\* ----------------------------------------------------------------- state
VARIABLES
    now,            \* wall clock, new Date()
    sessions,       \* table live_quiz_sessions: id -> row (present = the row exists)
    quiz_waitlist,  \* table quiz_waitlist: <<session_id, student_id>> -> number of rows
    private_quiz_participants,  \* table private_quiz_participants, likewise
    hostView,       \* per host view: the `sessions` prop it last rendered
    hostReq,        \* per host view: the handler it is running and where it stands
    hostOps,        \* number of host button clicks so far
    startSignals,   \* per session: number of onStartSession(session) calls
    deleteSignals,  \* per session: number of onSessionDelete(sessionId) calls
    startWrites,    \* per session: number of rows the start update has written
    tab,            \* per student tab: the handler it is running and where it stands
    joinedPrivateQuizzes,  \* per student tab: the joinedPrivateQuizzes state
    liveSessions,   \* per student tab: the liveSessions state, what fetchLiveSessions last set
    joinedWaitlists,  \* per student tab: the joinedWaitlists state
    dash,           \* per student tab: currentView, currentLiveSession and the lobby's state
    autoStarts,     \* per student tab and session: onQuizStart calls made by the lobby timer
    studentOps,     \* number of student button clicks so far
    toast,          \* the notice the last step showed, and the client that showed it
    realtimeChannel, \* per tab: the channel its lobby created and the subscribe callback
    presenceState,  \* the presence keys tracked on the session's channel
    participants    \* per tab: the lobby's list of participants

storeVars == <<sessions, quiz_waitlist, private_quiz_participants>>

hostVars == <<hostView, hostReq, hostOps, startSignals, deleteSignals, startWrites>>

joinVars == <<tab, joinedPrivateQuizzes>>

dashVars == <<liveSessions, joinedWaitlists, dash, autoStarts, studentOps>>

lobbyVars == <<realtimeChannel, presenceState, participants>>

vars == <<now, storeVars, hostVars, joinVars, dashVars, toast, lobbyVars>>

\* ------------------------------------------------------- session records
\* Schedules a row can hold: both instants absent, or start before end.
Schedules ==
    {<<Null, Null>>} \cup {sc \in Times \X Times : sc[1] < sc[2]}

\* createLiveQuizSession generating both codes whatever the privacy mode.
LiveQuizSession_bothCodes(sched, priv) ==
    [present |-> TRUE,
     status |-> "waiting",
     scheduled_start |-> sched[1],
     scheduled_end |-> sched[2],
     started_at |-> Null,
     ended_at |-> Null,
     is_private |-> priv,
     join_code |-> generateJoinCode,
     private_join_code |-> generatePrivateJoinCode]

\* The row createLiveQuizSession inserts; a row with no schedule is one the
\* nullable columns allow.
LiveQuizSession(sched, priv) ==
    [present |-> TRUE,
     status |-> "waiting",
     scheduled_start |-> sched[1],
     scheduled_end |-> sched[2],
     started_at |-> Null,
     ended_at |-> Null,
     is_private |-> priv,
     join_code |-> IF priv THEN NullCode ELSE generateJoinCode,
     private_join_code |-> IF priv THEN generatePrivateJoinCode ELSE NullCode]

\* What LiveQuizManager reads of a row of its `sessions` prop: every field but
\* started_at and ended_at.
Rendered(row) ==
    [present |-> row.present,
     status |-> row.status,
     scheduled_start |-> row.scheduled_start,
     scheduled_end |-> row.scheduled_end,
     is_private |-> row.is_private,
     join_code |-> row.join_code,
     private_join_code |-> row.private_join_code]

IdleReq == [op |-> "none", sid |-> "none", pc |-> "idle", at |-> Null]

\* The fetches of StudentDashboard that refresh its lists.
Refreshes == {"fetchLiveSessions", "fetchUserWaitlists", "fetchJoinedPrivateQuizzes"}

\* A student tab: where its handler stands (pc), the session and the code it
\* works on, how it ended (out), the error of its insert (err), whether
\* one of its requests failed to reach the store (lost), and the fetches the
\* handler has called to refresh the lists (calls).
IdleTab ==
    [pc |-> "idle", sid |-> "none", code |-> NullCode, out |-> "none", err |-> "none",
     lost |-> FALSE, calls |-> {}]

NoRows == [k \in Sessions \X Students |-> 0]

NoToast == [view |-> "none", tab |-> 0, kind |-> "none"]

HostToast(h, k) == [view |-> h, tab |-> 0, kind |-> k]

TabToast(p, k) == [view |-> "none", tab |-> p, kind |-> k]

\* ------------------------------------------------------------ Host Control
\* canStartSession with the comparison slipped to "strictly after the start".
canStartSession_strictlyAfter(session, t) ==
    IF session.status # "waiting" THEN FALSE
    ELSE IF session.scheduled_start # Null THEN t > session.scheduled_start
    ELSE TRUE

\* canStartSession reads the snapshot the view rendered and new Date().
canStartSession(session, t) ==
    IF session.status # "waiting" THEN FALSE
    ELSE IF session.scheduled_start # Null THEN t >= session.scheduled_start
    ELSE TRUE

\* The clock advances.
Tick ==
    /\ now < MaxTime
    /\ now' = now + 1
    /\ toast' = NoToast
    /\ UNCHANGED <<storeVars, hostVars, joinVars, dashVars, lobbyVars>>

\* The parent re-renders LiveQuizManager with a fresh `sessions` prop.
HostRefresh(h) ==
    /\ hostView[h] # [s \in Sessions |-> Rendered(sessions[s])]
    /\ hostView' = [hostView EXCEPT ![h] = [s \in Sessions |-> Rendered(sessions[s])]]
    /\ toast' = NoToast
    /\ UNCHANGED <<now, storeVars, hostReq, hostOps, startSignals, deleteSignals,
                   startWrites, joinVars, dashVars, lobbyVars>>

\* The "Start Quiz" button rendered whatever canStartSession answers.
ClickStart_unguarded(h, s) ==
    /\ hostReq[h].pc = "idle"
    /\ hostOps < MaxHostOps
    /\ hostView[h][s].present
    /\ hostReq' = [hostReq EXCEPT ![h] = [op |-> "start", sid |-> s, pc |-> "sent", at |-> now]]
    /\ hostOps' = hostOps + 1
    /\ toast' = NoToast
    /\ UNCHANGED <<now, storeVars, hostView, startSignals, deleteSignals, startWrites,
                   joinVars, dashVars, lobbyVars>>

\* "Start Quiz" is rendered when canStartSession(session); the click calls
\* handleStartSession(session), which issues the update with started_at = new Date().
ClickStart(h, s) ==
    /\ hostReq[h].pc = "idle"
    /\ hostOps < MaxHostOps
    /\ hostView[h][s].present
    /\ canStartSession(hostView[h][s], now)
    /\ hostReq' = [hostReq EXCEPT ![h] = [op |-> "start", sid |-> s, pc |-> "sent", at |-> now]]
    /\ hostOps' = hostOps + 1
    /\ toast' = NoToast
    /\ UNCHANGED <<now, storeVars, hostView, startSignals, deleteSignals, startWrites,
                   joinVars, dashVars, lobbyVars>>

\* handleStartSession going on to onStartSession(session) after an error.
StartFailed_stillSignals(h) ==
    /\ hostReq[h].pc = "sent"
    /\ hostReq[h].op = "start"
    /\ toast' = HostToast(h, "error")
    /\ startSignals' = [startSignals EXCEPT ![hostReq[h].sid] = @ + 1]
    /\ hostReq' = [hostReq EXCEPT ![h] = IdleReq]
    /\ UNCHANGED <<now, storeVars, hostView, hostOps, deleteSignals,
                   startWrites, joinVars, dashVars, lobbyVars>>

\* The request fails: handleStartSession shows toast.error and returns.
StartFailed(h) ==
    /\ hostReq[h].pc = "sent"
    /\ hostReq[h].op = "start"
    /\ toast' = HostToast(h, "error")
    /\ hostReq' = [hostReq EXCEPT ![h] = IdleReq]
    /\ UNCHANGED <<now, storeVars, hostView, hostOps, startSignals, deleteSignals,
                   startWrites, joinVars, dashVars, lobbyVars>>

\* The store runs update({status: 'in_progress', started_at}).eq('id', session.id):
\* the row with that id is written, whatever its status; no such row is no error.
StoreStart(h) ==
    LET s == hostReq[h].sid IN
    /\ hostReq[h].pc = "sent"
    /\ hostReq[h].op = "start"
    /\ hostReq' = [hostReq EXCEPT ![h].pc = "ok"]
    /\ IF sessions[s].present
       THEN /\ sessions' = [sessions EXCEPT ![s].status = "in_progress",
                                            ![s].started_at = hostReq[h].at]
            /\ startWrites' = [startWrites EXCEPT ![s] = @ + 1]
       ELSE UNCHANGED <<sessions, startWrites>>
    /\ toast' = NoToast
    /\ UNCHANGED <<now, quiz_waitlist, private_quiz_participants, hostView, hostOps,
                   startSignals, deleteSignals, joinVars, dashVars, lobbyVars>>

\* handleStartSession after the await, no error: toast.success and
\* onStartSession(session).
StartDone(h) ==
    LET s == hostReq[h].sid IN
    /\ hostReq[h].op = "start"
    /\ hostReq[h].pc = "ok"
    /\ toast' = HostToast(h, "success")
    /\ startSignals' = [startSignals EXCEPT ![s] = @ + 1]
    /\ hostReq' = [hostReq EXCEPT ![h] = IdleReq]
    /\ UNCHANGED <<now, storeVars, hostView, hostOps, deleteSignals, startWrites, joinVars, dashVars,
                   lobbyVars>>

\* The delete button is rendered when session.status === 'waiting'; the click
\* calls handleDeleteSession(session.id).
ClickDelete(h, s) ==
    /\ hostReq[h].pc = "idle"
    /\ hostOps < MaxHostOps
    /\ hostView[h][s].present
    /\ hostView[h][s].status = "waiting"
    /\ hostReq' = [hostReq EXCEPT ![h] = [op |-> "delete", sid |-> s, pc |-> "sent", at |-> Null]]
    /\ hostOps' = hostOps + 1
    /\ toast' = NoToast
    /\ UNCHANGED <<now, storeVars, hostView, startSignals, deleteSignals, startWrites,
                   joinVars, dashVars, lobbyVars>>

\* The request fails: handleDeleteSession shows toast.error and returns.
DeleteFailed(h) ==
    /\ hostReq[h].pc = "sent"
    /\ hostReq[h].op = "delete"
    /\ toast' = HostToast(h, "error")
    /\ hostReq' = [hostReq EXCEPT ![h] = IdleReq]
    /\ UNCHANGED <<now, storeVars, hostView, hostOps, startSignals, deleteSignals,
                   startWrites, joinVars, dashVars, lobbyVars>>

\* The store runs delete().eq('id', sessionId): the row goes, whatever its
\* status, and the membership rows that reference it go with it.
StoreDelete(h) ==
    LET s == hostReq[h].sid IN
    /\ hostReq[h].pc = "sent"
    /\ hostReq[h].op = "delete"
    /\ hostReq' = [hostReq EXCEPT ![h].pc = "ok"]
    /\ sessions' = [sessions EXCEPT ![s].present = FALSE]
    /\ quiz_waitlist' = [k \in DOMAIN quiz_waitlist |->
                            IF k[1] = s THEN 0 ELSE quiz_waitlist[k]]
    /\ private_quiz_participants' = [k \in DOMAIN private_quiz_participants |->
                            IF k[1] = s THEN 0 ELSE private_quiz_participants[k]]
    /\ toast' = NoToast
    /\ UNCHANGED <<now, hostView, hostOps, startSignals, deleteSignals, startWrites,
                   joinVars, dashVars, lobbyVars>>

\* handleDeleteSession after the await, no error: toast.success and
\* onSessionDelete(sessionId).
DeleteDone(h) ==
    LET s == hostReq[h].sid IN
    /\ hostReq[h].op = "delete"
    /\ hostReq[h].pc = "ok"
    /\ toast' = HostToast(h, "success")
    /\ deleteSignals' = [deleteSignals EXCEPT ![s] = @ + 1]
    /\ hostReq' = [hostReq EXCEPT ![h] = IdleReq]
    /\ UNCHANGED <<now, storeVars, hostView, hostOps, startSignals, startWrites, joinVars, dashVars,
                   lobbyVars>>

\* The host ends a running session: status = completed, ended_at = now.
EndSession(s) ==
    /\ sessions[s].present
    /\ sessions[s].status = "in_progress"
    /\ sessions' = [sessions EXCEPT ![s].status = "completed", ![s].ended_at = now]
    /\ toast' = NoToast
    /\ UNCHANGED <<now, quiz_waitlist, private_quiz_participants, hostVars, joinVars, dashVars,
                   lobbyVars>>

\* --------------------------------------------------------- Join Coordinator
\* The student a tab belongs to.
Owner(p) == IF p % 2 = 1 THEN "u1" ELSE "u2"

\* The membership tables are keyed by (session_id, student_id): an insert of
\* a pair that has a row is a duplicate-key conflict.
DuplicateKey(table, s, u) == table[<<s, u>>] > 0

\* What an insert into a membership table answers: the request can fail, the
\* foreign key session_id -> live_quiz_sessions.id must hold, and the key
\* must be new.
InsertError(table, s, u, failed) ==
    IF failed THEN "network"
    ELSE IF ~sessions[s].present THEN "foreign key"
    ELSE IF DuplicateKey(table, s, u) THEN "duplicate key"
    ELSE "none"

\* select(...).eq('session_id', s).eq('student_id', u).single(): data is the
\* row when the request succeeds and exactly one row matches, null otherwise.
SingleRow(table, s, u, failed) == ~failed /\ table[<<s, u>>] = 1

\* LiveQuizLobby mounts for a session: its effect calls ensureUserInWaitlist.
MountLobby(p, s) ==
    /\ tab[p].pc = "idle"
    /\ tab' = [tab EXCEPT ![p] = [IdleTab EXCEPT !.pc = "wl_select", !.sid = s]]
    /\ toast' = NoToast
    /\ UNCHANGED <<now, storeVars, hostVars, joinedPrivateQuizzes, dashVars, lobbyVars>>

\* ensureUserInWaitlist with the test of existingEntry inverted.
WaitlistSelect_inverted(p, failed) ==
    /\ tab[p].pc = "wl_select"
    /\ tab' = [tab EXCEPT ![p].pc =
                  IF SingleRow(quiz_waitlist, tab[p].sid, Owner(p), failed)
                  THEN "wl_insert" ELSE "wl_done",
                          ![p].lost = failed]
    /\ toast' = NoToast
    /\ UNCHANGED <<now, storeVars, hostVars, joinedPrivateQuizzes, dashVars, lobbyVars>>

\* ensureUserInWaitlist, first await: is the user already in the waitlist?
WaitlistSelect(p, failed) ==
    /\ tab[p].pc = "wl_select"
    /\ tab' = [tab EXCEPT ![p].pc =
                  IF SingleRow(quiz_waitlist, tab[p].sid, Owner(p), failed)
                  THEN "wl_done" ELSE "wl_insert",
                          ![p].lost = failed]
    /\ toast' = NoToast
    /\ UNCHANGED <<now, storeVars, hostVars, joinedPrivateQuizzes, dashVars, lobbyVars>>

\* ensureUserInWaitlist, second await: insert the row; an error is logged
\* unless its message includes 'duplicate key', and never shown.
WaitlistInsert(p, failed) ==
    LET s == tab[p].sid
        e == InsertError(quiz_waitlist, s, Owner(p), failed) IN
    /\ tab[p].pc = "wl_insert"
    /\ quiz_waitlist' = IF e = "none"
                        THEN [quiz_waitlist EXCEPT ![<<s, Owner(p)>>] = @ + 1]
                        ELSE quiz_waitlist
    /\ tab' = [tab EXCEPT ![p].pc = "wl_done", ![p].err = e, ![p].lost = @ \/ failed,
                          ![p].out = IF e \in {"none", "duplicate key"} THEN "joined" ELSE "logged"]
    /\ toast' = NoToast
    /\ UNCHANGED <<now, sessions, private_quiz_participants, hostVars, joinedPrivateQuizzes, dashVars,
                   lobbyVars>>

\* joinPrivateQuiz, up to the first await: an empty code after trim() is
\* refused with toast.error.
SubmitCode(p, code) ==
    /\ tab[p].pc = "idle"
    /\ IF Trim(code) = <<>>
       THEN /\ tab' = [tab EXCEPT ![p] = [IdleTab EXCEPT !.pc = "pj_done", !.out = "empty code"]]
            /\ toast' = TabToast(p, "error")
       ELSE /\ tab' = [tab EXCEPT ![p] = [IdleTab EXCEPT !.pc = "pj_lookup", !.code = code]]
            /\ toast' = NoToast
    /\ UNCHANGED <<now, storeVars, hostVars, joinedPrivateQuizzes, dashVars, lobbyVars>>

\* The rows .eq('private_join_code', code.trim().toUpperCase()).eq('is_private', true) selects.
PrivateMatches(code) ==
    {s \in Sessions : /\ sessions[s].present
                      /\ sessions[s].private_join_code = ToUpperCase(Trim(code))
                      /\ sessions[s].is_private}

\* joinPrivateQuiz without the return after 'Invalid join code': a lookup
\* that finds nothing goes on to the participant check.
PrivateLookup_fallsThrough(p, failed) ==
    LET m == PrivateMatches(tab[p].code) IN
    /\ tab[p].pc = "pj_lookup"
    /\ tab' = [tab EXCEPT ![p].pc = "pj_check",
                          ![p].sid = CHOOSE s \in Sessions : m # {} => s \in m,
                          ![p].code = NullCode]
    /\ toast' = IF failed \/ Cardinality(m) # 1 THEN TabToast(p, "error") ELSE NoToast
    /\ UNCHANGED <<now, storeVars, hostVars, joinedPrivateQuizzes, dashVars, lobbyVars>>

\* joinPrivateQuiz, first await: find the session; .single() gives an error
\* unless exactly one row matches -> 'Invalid join code or quiz not found'.
PrivateLookup(p, failed) ==
    LET m == PrivateMatches(tab[p].code) IN
    /\ tab[p].pc = "pj_lookup"
    /\ IF failed \/ Cardinality(m) # 1
       THEN /\ tab' = [tab EXCEPT ![p].pc = "pj_done", ![p].out = "invalid",
                                  ![p].code = NullCode, ![p].lost = failed]
            /\ toast' = TabToast(p, "error")
       ELSE /\ tab' = [tab EXCEPT ![p].pc = "pj_check", ![p].sid = CHOOSE s \in m : TRUE,
                                  ![p].code = NullCode]
            /\ toast' = NoToast
    /\ UNCHANGED <<now, storeVars, hostVars, joinedPrivateQuizzes, dashVars, lobbyVars>>

\* joinPrivateQuiz, second await: already joined? -> toast.info,
\* fetchLiveSessions() and return.
PrivateCheck(p, failed) ==
    /\ tab[p].pc = "pj_check"
    /\ IF SingleRow(private_quiz_participants, tab[p].sid, Owner(p), failed)
       THEN /\ tab' = [tab EXCEPT ![p].pc = "pj_done", ![p].out = "already",
                                  ![p].calls = {"fetchLiveSessions"}]
            /\ toast' = TabToast(p, "info")
       ELSE /\ tab' = [tab EXCEPT ![p].pc = "pj_insert", ![p].lost = failed]
            /\ toast' = NoToast
    /\ UNCHANGED <<now, storeVars, hostVars, joinedPrivateQuizzes, dashVars, lobbyVars>>

\* joinPrivateQuiz, third await: insert the participant row; any insertError
\* -> toast.error('Failed to join private quiz'); otherwise the session is
\* added to joinedPrivateQuizzes, toast.success is shown and
\* fetchLiveSessions() is called.
PrivateInsert(p, failed) ==
    LET s == tab[p].sid
        e == InsertError(private_quiz_participants, s, Owner(p), failed) IN
    /\ tab[p].pc = "pj_insert"
    /\ IF e # "none"
       THEN /\ tab' = [tab EXCEPT ![p].pc = "pj_done", ![p].out = "failed", ![p].err = e,
                                  ![p].lost = @ \/ failed]
            /\ toast' = TabToast(p, "error")
            /\ UNCHANGED <<private_quiz_participants, joinedPrivateQuizzes>>
       ELSE /\ private_quiz_participants' =
                   [private_quiz_participants EXCEPT ![<<s, Owner(p)>>] = @ + 1]
            /\ joinedPrivateQuizzes' = [joinedPrivateQuizzes EXCEPT ![p] = @ \cup {s}]
            /\ tab' = [tab EXCEPT ![p].pc = "pj_done", ![p].out = "joined",
                                  ![p].calls = {"fetchLiveSessions"}]
            /\ toast' = TabToast(p, "success")
    /\ UNCHANGED <<now, sessions, quiz_waitlist, hostVars, dashVars, lobbyVars>>

\* -------------------------------------------------------- Student view
\* What fetchLiveSessions keeps of a row: the mapped session has no
\* is_private and no private_join_code.
Listed(row) ==
    [listed |-> TRUE,
     status |-> row.status,
     scheduled_start |-> row.scheduled_start,
     scheduled_end |-> row.scheduled_end,
     join_code |-> row.join_code]

\* A session that is not in the liveSessions list.
Unlisted ==
    [listed |-> FALSE, status |-> "waiting", scheduled_start |-> Null,
     scheduled_end |-> Null, join_code |-> NullCode]

\* currentLiveSession: the list entry the student clicked, or null.
NoSession ==
    [id |-> "none", status |-> "waiting", scheduled_start |-> Null,
     scheduled_end |-> Null, join_code |-> NullCode]

CurrentSession(s, session) ==
    [id |-> s, status |-> session.status, scheduled_start |-> session.scheduled_start,
     scheduled_end |-> session.scheduled_end, join_code |-> session.join_code]

\* The dashboard of a tab that shows the session list.
IdleDash ==
    [currentView |-> "dashboard", currentLiveSession |-> NoSession,
     lobby |-> FALSE, hasAutoStarted |-> FALSE,
     timeUntilStart |-> 0, heard |-> 0, quizStarts |-> 0]

\* The session card: timeUntilStart, isStartingSoon, shouldBeActive, hasEnded, isLive.
CardTimeUntilStart(session, t) ==
    IF session.scheduled_start # Null /\ session.scheduled_start > t
    THEN session.scheduled_start - t ELSE 0

isStartingSoon(session, t) ==
    CardTimeUntilStart(session, t) > 0 /\ CardTimeUntilStart(session, t) <= SoonWindow

shouldBeActive(session, t) ==
    session.scheduled_start = Null \/ t >= session.scheduled_start

hasEnded(session, t) ==
    session.scheduled_end # Null /\ t > session.scheduled_end

isLive(session, t) ==
    session.status = "in_progress" \/ shouldBeActive(session, t)

\* The badge of the session card.
CardBadge(session, t) ==
    IF isLive(session, t) THEN "Live Now"
    ELSE IF isStartingSoon(session, t) THEN "Starting Soon"
    ELSE IF hasEnded(session, t) THEN "Ended"
    ELSE IF session.scheduled_start # Null THEN "Scheduled"
    ELSE "Waiting"

\* The join button of the session card is disabled={hasEnded}.
JoinEnabled(session, t) == ~hasEnded(session, t)

\* getStatusBadge of the host's session list.
getStatusBadge(session, t) ==
    IF session.status = "completed" THEN "Completed"
    ELSE IF session.status = "in_progress" THEN "Live Now"
    ELSE IF session.scheduled_start # Null /\ session.scheduled_end # Null
    THEN IF t < session.scheduled_start THEN "Scheduled"
         ELSE IF t >= session.scheduled_start /\ t <= session.scheduled_end
         THEN "Ready to Start"
         ELSE "Expired"
    ELSE "Waiting"

\* The effective phase of the Session Lifecycle Engine.
computePhase(session, t) ==
    IF session.status = "completed" THEN "Ended"
    ELSE IF session.status = "in_progress" THEN "Live"
    ELSE IF session.scheduled_start = Null THEN "WaitingNoSchedule"
    ELSE IF session.scheduled_end # Null /\ t > session.scheduled_end THEN "Ended"
    ELSE IF t >= session.scheduled_start THEN "Live"
    ELSE IF session.scheduled_start - t <= SoonWindow THEN "StartingSoon"
    ELSE "Scheduled"

\* The rows fetchLiveSessions keeps: status waiting or in_progress, and a
\* waiting row only until its scheduled end.
FetchVisible(row, t) ==
    /\ row.present
    /\ \/ row.status = "in_progress"
       \/ /\ row.status = "waiting"
          /\ (row.scheduled_end = Null \/ t <= row.scheduled_end)

\* fetchLiveSessions: the query and the filter; a failed request leaves the
\* list as it is.
fetchLiveSessions(p) ==
    /\ liveSessions' = [liveSessions EXCEPT ![p] =
           [s \in Sessions |-> IF FetchVisible(sessions[s], now)
                               THEN Listed(sessions[s]) ELSE Unlisted]]
    /\ liveSessions'[p] # liveSessions[p]
    /\ toast' = NoToast
    /\ UNCHANGED <<now, storeVars, hostVars, joinVars, joinedWaitlists, dash, autoStarts,
                   studentOps, lobbyVars>>

\* fetchUserWaitlists: the sessions the user has a quiz_waitlist row for.
fetchUserWaitlists(p) ==
    /\ joinedWaitlists' = [joinedWaitlists EXCEPT ![p] =
           {s \in Sessions : quiz_waitlist[<<s, Owner(p)>>] > 0}]
    /\ joinedWaitlists'[p] # joinedWaitlists[p]
    /\ toast' = NoToast
    /\ UNCHANGED <<now, storeVars, hostVars, joinVars, liveSessions, dash, autoStarts,
                   studentOps, lobbyVars>>

\* The number of quiz_started broadcasts sent on the channel of a session:
\* the host emits one after each start.
quiz_started(s) == startSignals[s]

\* updateCountdown with the test of the latch inverted.
AutoStartDue_latched(startTime, t, latch) == startTime - t <= 0 /\ latch

\* updateCountdown: timeDiff <= 0 && !hasAutoStarted.
AutoStartDue(startTime, t, latch) == startTime - t <= 0 /\ ~latch

\* LiveQuizLobby mounts for the clicked session: hasAutoStarted starts false,
\* the countdown effect runs updateCountdown once, the channel is subscribed
\* and ensureUserInWaitlist is called.  An updateCountdown that finds the
\* start time come calls onQuizStart from the mounted lobby.
EnterLobby(p, s) ==
    LET session == CurrentSession(s, liveSessions[p][s])
        due == /\ session.scheduled_start # Null
               /\ AutoStartDue(session.scheduled_start, now, FALSE)
    IN /\ tab[p].pc \in {"idle", "wl_done", "pj_done"}
       /\ tab' = [tab EXCEPT ![p] = [IdleTab EXCEPT !.pc = "wl_select", !.sid = s]]
       /\ dash' = [dash EXCEPT ![p] =
              [currentView |-> IF due THEN "taking" ELSE "live-lobby",
               currentLiveSession |-> session,
               lobby |-> TRUE,
               hasAutoStarted |-> due,
               timeUntilStart |-> IF due THEN 0 ELSE CardTimeUntilStart(session, now),
               heard |-> quiz_started(s),
               quizStarts |-> IF due THEN 1 ELSE 0]]
       /\ autoStarts' = IF due THEN [autoStarts EXCEPT ![p][s] = @ + 1] ELSE autoStarts
       /\ toast' = IF due THEN TabToast(p, "success") ELSE NoToast

\* The card button of a session the student is waitlisted for and that is
\* not live: "View Lobby".
ViewLobby(p, s) ==
    LET session == liveSessions[p][s] IN
    /\ dash[p].currentView = "dashboard"
    /\ session.listed
    /\ JoinEnabled(session, now)
    /\ ~isLive(session, now)
    /\ s \in joinedWaitlists[p]
    /\ studentOps < MaxStudentOps
    /\ studentOps' = studentOps + 1
    /\ EnterLobby(p, s)
    /\ UNCHANGED <<now, storeVars, hostVars, joinedPrivateQuizzes, liveSessions,
                   joinedWaitlists, lobbyVars>>

\* The card button otherwise: joinLiveSession(session).  A private session
\* the user is no participant of asks for the code; a participant goes to
\* the lobby.  A public session gets a quiz_waitlist row unless there is one
\* (a duplicate key counts as joined); then the student goes into the quiz
\* when the phase is Live and to the lobby otherwise.
joinLiveSession(p, s, failed) ==
    LET session == liveSessions[p][s]
        u == Owner(p)
        e == IF quiz_waitlist[<<s, u>>] > 0 THEN "none"
             ELSE InsertError(quiz_waitlist, s, u, failed)
    IN /\ dash[p].currentView = "dashboard"
       /\ session.listed
       /\ JoinEnabled(session, now)
       /\ isLive(session, now) \/ s \notin joinedWaitlists[p]
       /\ studentOps < MaxStudentOps
       /\ studentOps' = studentOps + 1
       /\ IF sessions[s].is_private
          THEN /\ IF private_quiz_participants[<<s, u>>] > 0
                  THEN EnterLobby(p, s)
                  ELSE /\ toast' = TabToast(p, "enter code")
                       /\ UNCHANGED <<tab, dash, autoStarts>>
               /\ UNCHANGED quiz_waitlist
          ELSE IF e \in {"none", "duplicate key"}
          THEN /\ quiz_waitlist' =
                      IF quiz_waitlist[<<s, u>>] = 0 /\ e = "none"
                      THEN [quiz_waitlist EXCEPT ![<<s, u>>] = 1] ELSE quiz_waitlist
               /\ IF computePhase(session, now) = "Live"
                  THEN /\ dash' = [dash EXCEPT ![p].currentView = "taking",
                                               ![p].currentLiveSession = CurrentSession(s, session)]
                       /\ toast' = NoToast
                       /\ UNCHANGED <<tab, autoStarts>>
                  ELSE EnterLobby(p, s)
          ELSE /\ toast' = TabToast(p, "error")
               /\ UNCHANGED <<quiz_waitlist, tab, dash, autoStarts>>
       /\ UNCHANGED <<now, sessions, private_quiz_participants, hostVars,
                      joinedPrivateQuizzes, liveSessions, joinedWaitlists, lobbyVars>>

\* The lobby's one-second timer without the early return for a session that
\* has no scheduled_start.
LobbyTick_unscheduled(p) ==
    LET session == dash[p].currentLiveSession IN
    /\ dash[p].lobby
    /\ dash[p].currentView = "live-lobby"
    /\ IF AutoStartDue(session.scheduled_start, now, dash[p].hasAutoStarted)
       THEN /\ dash' = [dash EXCEPT ![p].hasAutoStarted = TRUE, ![p].currentView = "taking",
                                     ![p].quizStarts = @ + 1]
            /\ autoStarts' = [autoStarts EXCEPT ![p][session.id] = @ + 1]
            /\ toast' = TabToast(p, "success")
       ELSE /\ dash' = [dash EXCEPT ![p].timeUntilStart = CardTimeUntilStart(session, now)]
            /\ toast' = NoToast
            /\ UNCHANGED autoStarts
    /\ UNCHANGED <<now, storeVars, hostVars, joinVars, liveSessions, joinedWaitlists,
                   studentOps, lobbyVars>>

\* The lobby's one-second timer, updateCountdown: when the start time has
\* come and the latch is clear it sets the latch, shows the notice and calls
\* onQuizStart (handleStartQuiz: currentView = 'taking'); otherwise it sets
\* timeUntilStart.  A session with no scheduled_start has no timer.  The
\* interval runs until the lobby's cleanup; its next run, a second later,
\* comes after the render of what the previous run set.
LobbyTick(p) ==
    LET session == dash[p].currentLiveSession IN
    /\ dash[p].lobby
    /\ dash[p].currentView = "live-lobby"
    /\ session.scheduled_start # Null
    /\ IF AutoStartDue(session.scheduled_start, now, dash[p].hasAutoStarted)
       THEN /\ dash' = [dash EXCEPT ![p].hasAutoStarted = TRUE, ![p].currentView = "taking",
                                     ![p].quizStarts = @ + 1]
            /\ autoStarts' = [autoStarts EXCEPT ![p][session.id] = @ + 1]
            /\ toast' = TabToast(p, "success")
       ELSE /\ dash' = [dash EXCEPT ![p].timeUntilStart = CardTimeUntilStart(session, now)]
            /\ toast' = NoToast
            /\ UNCHANGED autoStarts
    /\ UNCHANGED <<now, storeVars, hostVars, joinVars, liveSessions, joinedWaitlists,
                   studentOps, lobbyVars>>

\* The lobby's handler of the quiz_started broadcast: each broadcast sent
\* while the lobby is subscribed shows the notice and calls onQuizStart; the
\* handler reads no latch, and the channel delivers until the lobby's cleanup.
OnQuizStarted(p) ==
    LET s == dash[p].currentLiveSession.id IN
    /\ dash[p].lobby
    /\ quiz_started(s) > dash[p].heard
    /\ dash' = [dash EXCEPT ![p].currentView = "taking", ![p].heard = @ + 1,
                             ![p].quizStarts = @ + 1]
    /\ toast' = TabToast(p, "success")
    /\ UNCHANGED <<now, storeVars, hostVars, joinVars, liveSessions, joinedWaitlists,
                   autoStarts, studentOps, lobbyVars>>

\* StudentDashboard renders again after onQuizStart set currentView from a
\* timer or a channel callback.  With currentView no longer 'live-lobby' the
\* lobby unmounts: its cleanups clear the interval and remove the channel,
\* and its state is gone.
Render(p) ==
    /\ dash[p].lobby
    /\ dash[p].currentView # "live-lobby"
    /\ dash' = [dash EXCEPT ![p].lobby = FALSE, ![p].hasAutoStarted = FALSE,
                             ![p].timeUntilStart = 0]
    /\ toast' = NoToast
    /\ UNCHANGED <<now, storeVars, hostVars, joinVars, liveSessions, joinedWaitlists,
                   autoStarts, studentOps, lobbyVars>>

\* The "Leave Waitlist" button of a card, rendered when the user is in the
\* waitlist and the session is not live: leaveWaitlist(session.id) deletes
\* the user's quiz_waitlist row of the session; the lists are refreshed by
\* the fetches that follow.
leaveWaitlist(p, s, failed) ==
    LET session == liveSessions[p][s] IN
    /\ dash[p].currentView = "dashboard"
    /\ session.listed
    /\ s \in joinedWaitlists[p]
    /\ ~isLive(session, now)
    /\ studentOps < MaxStudentOps
    /\ studentOps' = studentOps + 1
    /\ IF failed
       THEN /\ toast' = TabToast(p, "error")
            /\ UNCHANGED quiz_waitlist
       ELSE /\ toast' = TabToast(p, "left")
            /\ quiz_waitlist' = [quiz_waitlist EXCEPT ![<<s, Owner(p)>>] = 0]
    /\ UNCHANGED <<now, sessions, private_quiz_participants, hostVars, joinVars,
                   liveSessions, joinedWaitlists, dash, autoStarts, lobbyVars>>

\* handleBackToDashboard removing the user's quiz_waitlist row of the session
\* on the way out.
handleBackToDashboard_leavesWaitlist(p) ==
    /\ dash[p].currentView \in {"live-lobby", "taking"}
    /\ studentOps < MaxStudentOps
    /\ studentOps' = studentOps + 1
    /\ dash' = [dash EXCEPT ![p] = IdleDash]
    /\ quiz_waitlist' = [quiz_waitlist EXCEPT
                             ![<<dash[p].currentLiveSession.id, Owner(p)>>] = 0]
    /\ toast' = NoToast
    /\ UNCHANGED <<now, sessions, private_quiz_participants, hostVars, joinVars,
                   liveSessions, joinedWaitlists, autoStarts, lobbyVars>>

\* handleBackToDashboard with the lobby left mounted: no cleanup runs, so
\* the interval and the channel stay.
handleBackToDashboard_keepsLobby(p) ==
    /\ dash[p].currentView \in {"live-lobby", "taking"}
    /\ studentOps < MaxStudentOps
    /\ studentOps' = studentOps + 1
    /\ dash' = [dash EXCEPT ![p].currentView = "dashboard"]
    /\ toast' = NoToast
    /\ UNCHANGED <<now, storeVars, hostVars, joinVars, liveSessions, joinedWaitlists,
                   autoStarts, lobbyVars>>

\* handleBackToDashboard: the lobby's Leave button and the quiz's Back.  The
\* click is rendered at once: a mounted lobby unmounts and runs its cleanups.
handleBackToDashboard(p) ==
    /\ dash[p].currentView \in {"live-lobby", "taking"}
    /\ studentOps < MaxStudentOps
    /\ studentOps' = studentOps + 1
    /\ dash' = [dash EXCEPT ![p] = IdleDash]
    /\ toast' = NoToast
    /\ UNCHANGED <<now, storeVars, hostVars, joinVars, liveSessions, joinedWaitlists,
                   autoStarts, lobbyVars>>

\* The wall clock of the student's browser.
DashTick ==
    /\ now < MaxLobbyTime
    /\ now' = now + 1
    /\ toast' = NoToast
    /\ UNCHANGED <<storeVars, hostVars, joinVars, dashVars, lobbyVars>>

\* ------------------------------------------------------- Presence Lobby
\* The channel of a tab's lobby: none before the first mount, joining after
\* subscribe(), joined once the server has answered, closed after
\* removeChannel.  cb is where the subscribe callback stands; pushBuffer tells
\* that a track was pushed on a channel that is not joined, where it waits
\* for a join that never comes.
NoChannel == [state |-> "none", cb |-> "idle", pushBuffer |-> FALSE]

\* The payload a tab tracks.
Participant(k) == [user_id |-> Owner(k), display_name |-> Owner(k)]

\* realtimeChannel.presenceState(): one entry per presence key, holding the
\* payloads tracked under it.  The channel is created with no presence key,
\* so each subscription is tracked under a key of its own.
PresenceEntries(keys) ==
    LET Tracked(k) == k \in keys
        ks == SelectSeq([k \in 1..NumTabs |-> k], Tracked)
    IN [i \in 1..Len(ks) |-> <<Participant(ks[i])>>]

\* The sync handler: Object.values(presenceState).map(p => p[0])
\* .filter(p => p.user_id && p.display_name).
currentParticipants(keys) ==
    LET entries == PresenceEntries(keys) IN
    [i \in 1..Len(entries) |-> entries[i][1]]

\* The channel effect of a lobby that mounts: supabase.channel(...), the
\* handlers, subscribe().
Subscribe(p) ==
    /\ realtimeChannel[p].state \in {"none", "closed"}
    /\ realtimeChannel[p].cb = "idle"
    /\ realtimeChannel' = [realtimeChannel EXCEPT ![p] = [NoChannel EXCEPT !.state = "joining"]]
    /\ toast' = NoToast
    /\ UNCHANGED <<now, storeVars, hostVars, joinVars, dashVars, presenceState, participants>>

\* The subscribe callback runs with status 'SUBSCRIBED' and awaits the
\* select of the profile.
Subscribed(p) ==
    /\ realtimeChannel[p].state = "joining"
    /\ realtimeChannel' = [realtimeChannel EXCEPT ![p].state = "joined", ![p].cb = "profile"]
    /\ toast' = NoToast
    /\ UNCHANGED <<now, storeVars, hostVars, joinVars, dashVars, presenceState, participants>>

\* The callback after the profile select: realtimeChannel.track({user_id,
\* display_name}), whatever the select gave.  On a joined channel the
\* payload is tracked; on a channel that was removed meanwhile the push is
\* buffered.
track(p) ==
    /\ realtimeChannel[p].cb = "profile"
    /\ IF realtimeChannel[p].state = "joined"
       THEN /\ presenceState' = presenceState \cup {p}
            /\ realtimeChannel' = [realtimeChannel EXCEPT ![p].cb = "idle"]
       ELSE /\ realtimeChannel' = [realtimeChannel EXCEPT ![p].cb = "idle",
                                                         ![p].pushBuffer = TRUE]
            /\ UNCHANGED presenceState
    /\ toast' = NoToast
    /\ UNCHANGED <<now, storeVars, hostVars, joinVars, dashVars, participants>>

\* The presence sync event in a subscribed lobby: setParticipants.
PresenceSync(p) ==
    /\ realtimeChannel[p].state = "joined"
    /\ participants[p] # currentParticipants(presenceState)
    /\ participants' = [participants EXCEPT ![p] = currentParticipants(presenceState)]
    /\ toast' = NoToast
    /\ UNCHANGED <<now, storeVars, hostVars, joinVars, dashVars, realtimeChannel, presenceState>>

\* The cleanup of the channel effect with the channel removed but the
\* presence not revoked.
removeChannel_keepsPresence(p) ==
    /\ realtimeChannel[p].state \in {"joining", "joined"}
    /\ realtimeChannel' = [realtimeChannel EXCEPT ![p].state = "closed"]
    /\ participants' = [participants EXCEPT ![p] = <<>>]
    /\ toast' = NoToast
    /\ UNCHANGED <<now, storeVars, hostVars, joinVars, dashVars, presenceState>>

\* The cleanup of the channel effect when the lobby unmounts:
\* realtimeChannel.untrack() and supabase.removeChannel(realtimeChannel).
\* The lobby's participants state goes with the component.
removeChannel(p) ==
    /\ realtimeChannel[p].state \in {"joining", "joined"}
    /\ presenceState' = presenceState \ {p}
    /\ realtimeChannel' = [realtimeChannel EXCEPT ![p].state = "closed"]
    /\ participants' = [participants EXCEPT ![p] = <<>>]
    /\ toast' = NoToast
    /\ UNCHANGED <<now, storeVars, hostVars, joinVars, dashVars>>

\* ---------------------------------------------------------- specification
Init ==
    /\ now = 1
    /\ sessions \in [Sessions -> {LiveQuizSession(sc, p) : sc \in Schedules, p \in BOOLEAN}]
    /\ quiz_waitlist = NoRows
    /\ private_quiz_participants = NoRows
    /\ hostView = [h \in HostViews |-> [s \in Sessions |-> Rendered(sessions[s])]]
    /\ hostReq = [h \in HostViews |-> IdleReq]
    /\ hostOps = 0
    /\ startSignals = [s \in Sessions |-> 0]
    /\ deleteSignals = [s \in Sessions |-> 0]
    /\ startWrites = [s \in Sessions |-> 0]
    /\ tab = [p \in Tabs |-> IdleTab]
    /\ joinedPrivateQuizzes = [p \in Tabs |-> {}]
    /\ liveSessions = [p \in Tabs |-> [s \in Sessions |-> Unlisted]]
    /\ joinedWaitlists = [p \in Tabs |-> {}]
    /\ dash = [p \in Tabs |-> IdleDash]
    /\ autoStarts = [p \in Tabs |-> [s \in Sessions |-> 0]]
    /\ studentOps = 0
    /\ toast = NoToast
    /\ realtimeChannel = [p \in Tabs |-> NoChannel]
    /\ presenceState = {}
    /\ participants = [p \in Tabs |-> <<>>]

Next ==
    \/ Tick
    \/ \E h \in HostViews : HostRefresh(h)
    \/ \E h \in HostViews, s \in Sessions : ClickStart(h, s)
    \/ \E h \in HostViews : StartFailed(h)
    \/ \E h \in HostViews : StoreStart(h)
    \/ \E h \in HostViews : StartDone(h)
    \/ \E h \in HostViews, s \in Sessions : ClickDelete(h, s)
    \/ \E h \in HostViews : DeleteFailed(h)
    \/ \E h \in HostViews : StoreDelete(h)
    \/ \E h \in HostViews : DeleteDone(h)
    \/ \E s \in Sessions : EndSession(s)

Spec == Init /\ [][Next]_vars

\* The rows of live_quiz_sessions the student tabs can meet: a waiting row,
\* a row that was started and ended, and a deleted row.  The join handlers
\* read neither the schedule, the timestamps nor the status, so one schedule
\* is drawn, and of the rows past waiting the completed one.
SessionRows ==
    LET fresh == {LiveQuizSession(<<1, 2>>, p) : p \in BOOLEAN}
        started == {[r EXCEPT !.status = "in_progress", !.started_at = 1] : r \in fresh}
        ended == {[r EXCEPT !.status = "completed", !.ended_at = 1] : r \in started}
    IN fresh \cup ended \cup {[r EXCEPT !.present = FALSE] : r \in fresh}

InitJoin ==
    /\ now = 1
    /\ sessions \in [Sessions -> SessionRows]
    /\ quiz_waitlist = NoRows
    /\ private_quiz_participants = NoRows
    /\ hostView = [h \in HostViews |-> [s \in Sessions |-> Rendered(sessions[s])]]
    /\ hostReq = [h \in HostViews |-> IdleReq]
    /\ hostOps = 0
    /\ startSignals = [s \in Sessions |-> 0]
    /\ deleteSignals = [s \in Sessions |-> 0]
    /\ startWrites = [s \in Sessions |-> 0]
    /\ tab = [p \in Tabs |-> IdleTab]
    /\ joinedPrivateQuizzes = [p \in Tabs |-> {}]
    /\ liveSessions = [p \in Tabs |-> [s \in Sessions |-> Unlisted]]
    /\ joinedWaitlists = [p \in Tabs |-> {}]
    /\ dash = [p \in Tabs |-> IdleDash]
    /\ autoStarts = [p \in Tabs |-> [s \in Sessions |-> 0]]
    /\ studentOps = 0
    /\ toast = NoToast
    /\ realtimeChannel = [p \in Tabs |-> NoChannel]
    /\ presenceState = {}
    /\ participants = [p \in Tabs |-> <<>>]

NextJoin ==
    \/ \E p \in Tabs, s \in Sessions : MountLobby(p, s)
    \/ \E p \in Tabs, f \in BOOLEAN : WaitlistSelect(p, f)
    \/ \E p \in Tabs, f \in BOOLEAN : WaitlistInsert(p, f)
    \/ \E p \in Tabs, c \in InputCodes : SubmitCode(p, c)
    \/ \E p \in Tabs, f \in BOOLEAN : PrivateLookup(p, f)
    \/ \E p \in Tabs, f \in BOOLEAN : PrivateCheck(p, f)
    \/ \E p \in Tabs, f \in BOOLEAN : PrivateInsert(p, f)

SpecJoin == InitJoin /\ [][NextJoin]_vars

\* The student view is followed in one tab: tabs meet only in the store,
\* where SpecJoin follows them.
DashTabs == {1}

\* The instants of the student view's clock.
DashTimes == 1..MaxLobbyTime

\* The sessions the student meets: a waiting row, with no schedule or with
\* one that lies ahead.  In a private session the student has redeemed the
\* code (a participant row exists) or has not.
DashRows ==
    {LiveQuizSession(sc, p) : sc \in {<<Null, Null>>, <<2, 3>>}, p \in BOOLEAN}

InitDash ==
    /\ now = 1
    /\ sessions \in [Sessions -> DashRows]
    /\ quiz_waitlist = NoRows
    /\ \E admitted \in BOOLEAN :
           private_quiz_participants =
               [k \in Sessions \X Students |->
                   IF sessions[k[1]].is_private /\ admitted /\ k[2] = "u1" THEN 1 ELSE 0]
    /\ hostView = [h \in HostViews |-> [s \in Sessions |-> Rendered(sessions[s])]]
    /\ hostReq = [h \in HostViews |-> IdleReq]
    /\ hostOps = 0
    /\ startSignals = [s \in Sessions |-> 0]
    /\ deleteSignals = [s \in Sessions |-> 0]
    /\ startWrites = [s \in Sessions |-> 0]
    /\ tab = [p \in Tabs |-> IdleTab]
    /\ joinedPrivateQuizzes = [p \in Tabs |-> {}]
    /\ liveSessions = [p \in Tabs |-> [s \in Sessions |-> Unlisted]]
    /\ joinedWaitlists = [p \in Tabs |-> {}]
    /\ dash = [p \in Tabs |-> IdleDash]
    /\ autoStarts = [p \in Tabs |-> [s \in Sessions |-> 0]]
    /\ studentOps = 0
    /\ toast = NoToast
    /\ realtimeChannel = [p \in Tabs |-> NoChannel]
    /\ presenceState = {}
    /\ participants = [p \in Tabs |-> <<>>]

NextDash ==
    \/ DashTick
    \/ \E p \in DashTabs : fetchLiveSessions(p)
    \/ \E p \in DashTabs : fetchUserWaitlists(p)
    \/ \E p \in DashTabs, s \in Sessions : ViewLobby(p, s)
    \/ \E p \in DashTabs, s \in Sessions, f \in BOOLEAN : joinLiveSession(p, s, f)
    \/ \E p \in DashTabs, f \in BOOLEAN : WaitlistSelect(p, f)
    \/ \E p \in DashTabs, f \in BOOLEAN : WaitlistInsert(p, f)
    \/ \E p \in DashTabs : LobbyTick(p)
    \/ \E p \in DashTabs : OnQuizStarted(p)
    \/ \E p \in DashTabs : Render(p)
    \/ \E p \in DashTabs : handleBackToDashboard(p)
    \/ \E p \in DashTabs, s \in Sessions, f \in BOOLEAN : leaveWaitlist(p, s, f)
    \/ \E s \in Sessions : ClickStart("h1", s)
    \/ StoreStart("h1")
    \/ StartDone("h1")

SpecDash == InitDash /\ [][NextDash]_vars

\* The handlers that show a failure to the user, side by side: one host view
\* starting and deleting, one student tab redeeming a private code.
FailTabs == {1}

NextFail ==
    \/ \E s \in Sessions : ClickStart("h1", s)
    \/ StartFailed("h1")
    \/ StoreStart("h1")
    \/ StartDone("h1")
    \/ \E s \in Sessions : ClickDelete("h1", s)
    \/ DeleteFailed("h1")
    \/ StoreDelete("h1")
    \/ DeleteDone("h1")
    \/ \E p \in FailTabs, c \in InputCodes : SubmitCode(p, c)
    \/ \E p \in FailTabs, f \in BOOLEAN : PrivateLookup(p, f)
    \/ \E p \in FailTabs, f \in BOOLEAN : PrivateCheck(p, f)
    \/ \E p \in FailTabs, f \in BOOLEAN : PrivateInsert(p, f)

SpecFail == InitJoin /\ [][NextFail]_vars

\* The lobbies on the channel of one session: two tabs of one user and a tab
\* of another.
LobbyTabs == {1, 2, 3}

NextPresence ==
    \/ \E p \in LobbyTabs : Subscribe(p)
    \/ \E p \in LobbyTabs : Subscribed(p)
    \/ \E p \in LobbyTabs : track(p)
    \/ \E p \in LobbyTabs : PresenceSync(p)
    \/ \E p \in LobbyTabs : removeChannel(p)

SpecPresence == InitJoin /\ [][NextPresence]_vars

\* The student view while no host starts the session, so that no broadcast
\* is sent.
NextTimer ==
    \/ DashTick
    \/ \E p \in DashTabs : fetchLiveSessions(p)
    \/ \E p \in DashTabs : fetchUserWaitlists(p)
    \/ \E p \in DashTabs, s \in Sessions : ViewLobby(p, s)
    \/ \E p \in DashTabs, s \in Sessions, f \in BOOLEAN : joinLiveSession(p, s, f)
    \/ \E p \in DashTabs, f \in BOOLEAN : WaitlistSelect(p, f)
    \/ \E p \in DashTabs, f \in BOOLEAN : WaitlistInsert(p, f)
    \/ \E p \in DashTabs : LobbyTick(p)
    \/ \E p \in DashTabs : Render(p)
    \/ \E p \in DashTabs : handleBackToDashboard(p)

\* ... with the lobby's interval running: while the lobby is mounted,
\* setInterval(updateCountdown, 1000) keeps calling updateCountdown.
SpecDashFair ==
    /\ InitDash
    /\ [][NextTimer]_vars
    /\ \A p \in DashTabs : WF_vars(LobbyTick(p))

\* ------------------------------------------------------------------ claims
Rank(status) == CASE status = "waiting" -> 0 [] status = "in_progress" -> 1 [] OTHER -> 2

\* C1: the persisted status of a session never moves backward: every step
\* that keeps the row leaves it at the same or a later stage of
\* waiting -> in_progress -> completed.
C1_StatusNeverMovesBackward ==
    [][\A s \in Sessions :
          (sessions[s].present /\ sessions'[s].present)
              => Rank(sessions'[s].status) >= Rank(sessions[s].status)]_vars

\* C2: the write that sets status = in_progress is performed at most once
\* per session.
C2_StartedAtMostOnce ==
    \A s \in Sessions : startWrites[s] <= 1

\* C8: for every snapshot a host view holds and every instant,
\* canStartSession is true exactly when the status is waiting and the
\* session has no scheduled start or the start is not in the future.
C8_CanStartIff ==
    \A h \in HostViews, s \in Sessions, t \in Times :
        canStartSession(hostView[h][s], t)
            <=> (/\ hostView[h][s].status = "waiting"
                 /\ (hostView[h][s].scheduled_start = Null
                        \/ t >= hostView[h][s].scheduled_start))

\* C8 witness: a scheduled session whose start has come has been offered for
\* start and the host has clicked, while another view shows it as not startable.
C8_Witness ==
    \E h \in HostViews, g \in HostViews, s \in Sessions :
        /\ hostReq[h].op = "start"
        /\ hostReq[h].sid = s
        /\ hostView[h][s].scheduled_start # Null
        /\ now >= hostView[h][s].scheduled_start
        /\ hostView[g][s].status = "in_progress"
        /\ ~canStartSession(hostView[g][s], now)

\* C9: a session row is deleted only while its persisted status is waiting.
C9_DeleteOnlyWhileWaiting ==
    [][\A s \in Sessions :
          (sessions[s].present /\ ~sessions'[s].present)
              => sessions[s].status = "waiting"]_vars

\* C10: a start signal is emitted only after the store write of that session
\* has succeeded, and once no start handler is running every successful write
\* has been followed by its signal.
C10_SignalAfterWrite ==
    \A s \in Sessions :
        /\ startSignals[s] <= startWrites[s]
        /\ (\A h \in HostViews : hostReq[h].op # "start")
               => startSignals[s] = startWrites[s]

\* C3: quiz_waitlist holds at most one row per (session, student) in every
\* state, and every run of ensureUserInWaitlist that the store answered (the
\* row was found, inserted, or refused as a duplicate key) ends with exactly
\* one row for its student.
C3_OneWaitlistRow ==
    /\ [](\A k \in Sessions \X Students : quiz_waitlist[k] <= 1)
    /\ [][\A p \in Tabs :
            (/\ tab[p].pc \in {"wl_select", "wl_insert"}
             /\ tab'[p].pc = "wl_done"
             /\ tab'[p].err \in {"none", "duplicate key"})
                => quiz_waitlist'[<<tab[p].sid, Owner(p)>>] = 1]_vars

\* C3 witness: two lobby mounts of one student raced (the second insert met
\* the duplicate key) and another student joined the same session.
C3_Witness ==
    \E p \in Tabs, q \in Tabs, r \in Tabs :
        /\ p # q /\ Owner(p) = Owner(q) /\ Owner(r) # Owner(p)
        /\ tab[p].pc = "wl_done" /\ tab[q].pc = "wl_done" /\ tab[r].pc = "wl_done"
        /\ tab[p].sid = tab[q].sid /\ tab[r].sid = tab[p].sid
        /\ tab[p].err = "none" /\ tab[p].out = "joined"
        /\ tab[q].err = "duplicate key" /\ ~tab[q].lost
        /\ tab[r].out = "joined" /\ tab[r].err = "none"

\* C4: when one student has redeemed the correct code in two tabs and no
\* request was lost, exactly one participant row exists and both attempts
\* ended with the student admitted.
C4_RedeemTwiceAdmitsTwice ==
    \A p \in Tabs, q \in Tabs :
        (/\ p # q /\ Owner(p) = Owner(q)
         /\ tab[p].pc = "pj_done" /\ tab[q].pc = "pj_done"
         /\ tab[p].sid # "none" /\ tab[q].sid = tab[p].sid
         /\ ~tab[p].lost /\ ~tab[q].lost
         /\ sessions[tab[p].sid].present)
            => /\ private_quiz_participants[<<tab[p].sid, Owner(p)>>] = 1
               /\ tab[p].out \in {"joined", "already"}
               /\ tab[q].out \in {"joined", "already"}

\* C5: an insert that met the duplicate key never ends its handler with the
\* error outcome, in either table.
C5_DuplicateKeyNeverSurfaced ==
    \A p \in Tabs : tab[p].err = "duplicate key" => tab[p].out # "failed"

\* No present private session carries the normalised code.
NoSessionHasCode(code) ==
    \A s \in Sessions :
        ~(/\ sessions[s].present
          /\ sessions[s].is_private
          /\ sessions[s].private_join_code = ToUpperCase(Trim(code)))

\* C6: every step of joinPrivateQuiz run with a code that matches no private
\* session leaves both membership tables and the tab's joinedPrivateQuizzes
\* unchanged, and the lookup ends the handler with the invalid-code error.
C6_WrongCodeChangesNothing ==
    [][\A p \in Tabs :
          (/\ tab'[p] # tab[p]
           /\ \/ tab[p].pc = "pj_lookup" /\ NoSessionHasCode(tab[p].code)
              \/ tab'[p].pc = "pj_lookup" /\ NoSessionHasCode(tab'[p].code))
              => /\ quiz_waitlist' = quiz_waitlist
                 /\ private_quiz_participants' = private_quiz_participants
                 /\ joinedPrivateQuizzes' = joinedPrivateQuizzes
                 /\ tab[p].pc = "pj_lookup"
                        => /\ tab'[p].pc = "pj_done"
                           /\ tab'[p].out = "invalid"
                           /\ toast' = TabToast(p, "error")]_vars

\* C6 witness: a wrong code was answered with the invalid-code error while a
\* private session with another code exists.
C6_Witness ==
    \E p \in Tabs, s \in Sessions :
        /\ tab[p].pc = "pj_done"
        /\ tab[p].out = "invalid"
        /\ ~tab[p].lost
        /\ sessions[s].present /\ sessions[s].is_private
        /\ toast = TabToast(p, "error")

\* C7: no participant row is inserted for a session whose status is completed.
C7_CompletedNotRedeemable ==
    \A s \in Sessions, u \in Students :
        sessions[s].status = "completed" => private_quiz_participants[<<s, u>>] = 0

C12_StartedAtSetOnce ==
    /\ [](\A s \in Sessions :
            sessions[s].started_at # Null <=> sessions[s].status # "waiting")
    /\ [][\A s \in Sessions :
            sessions[s].started_at # Null
                => sessions'[s].started_at = sessions[s].started_at]_vars

\* C13: a listed session that is waiting and has no scheduled start is not
\* live for the student: the card computes isLive false and shows "Waiting",
\* as the host's badge does.
C13_NoScheduleNeverLive ==
    \A p \in Tabs, s \in Sessions :
        (/\ liveSessions[p][s].listed
         /\ liveSessions[p][s].status = "waiting"
         /\ liveSessions[p][s].scheduled_start = Null)
            => /\ ~isLive(liveSessions[p][s], now)
               /\ CardBadge(liveSessions[p][s], now) = "Waiting"
               /\ getStatusBadge(liveSessions[p][s], now) = "Waiting"

\* C14: a listed waiting session whose scheduled end has passed is shown as
\* ended, not live, by the student's card and by the host's badge.
C14_ExpiredNotLive ==
    \A p \in Tabs, s \in Sessions :
        (/\ liveSessions[p][s].listed
         /\ liveSessions[p][s].status = "waiting"
         /\ liveSessions[p][s].scheduled_end # Null
         /\ now > liveSessions[p][s].scheduled_end)
            => /\ ~isLive(liveSessions[p][s], now)
               /\ CardBadge(liveSessions[p][s], now) = "Ended"
               /\ getStatusBadge(liveSessions[p][s], now) = "Expired"

\* C15: a listed session whose status is in_progress is live at every
\* instant, whatever its schedule, and its join button is enabled.
C15_InProgressLiveAndJoinable ==
    \A p \in Tabs, s \in Sessions :
        (/\ liveSessions[p][s].listed
         /\ liveSessions[p][s].status = "in_progress")
            => /\ isLive(liveSessions[p][s], now)
               /\ CardBadge(liveSessions[p][s], now) = "Live Now"
               /\ getStatusBadge(liveSessions[p][s], now) = "Live Now"
               /\ JoinEnabled(liveSessions[p][s], now)

\* C16: in one tab the lobby timer calls onQuizStart at most once per
\* session, and a timer step calls it exactly when the start time has come.
C16_AutoStartOnce ==
    /\ [](\A p \in Tabs, s \in Sessions : autoStarts[p][s] <= 1)
    /\ [][\A p \in Tabs, s \in Sessions :
            autoStarts'[p][s] # autoStarts[p][s]
                => /\ autoStarts'[p][s] = autoStarts[p][s] + 1
                   /\ dash'[p].currentLiveSession.scheduled_start # Null
                   /\ now >= dash'[p].currentLiveSession.scheduled_start
                   /\ dash'[p].currentView = "taking"]_vars

C18_ExpiredNotEntered ==
    [][\A p \in Tabs :
          LET session == dash'[p].currentLiveSession IN
          (/\ dash[p].currentView # "taking"
           /\ dash'[p].currentView = "taking"
           /\ session.id # "none")
              => ~(/\ sessions[session.id].present
                   /\ sessions[session.id].status = "waiting"
                   /\ sessions[session.id].scheduled_end # Null
                   /\ now > sessions[session.id].scheduled_end)]_vars

\* C19: no quiz_waitlist row exists for a private session.
C19_NoWaitlistRowForPrivate ==
    \A s \in Sessions, u \in Students :
        sessions[s].is_private => quiz_waitlist[<<s, u>>] = 0

\* C20: a private session is in a student's liveSessions list only if the
\* student has a private_quiz_participants row for it.
C20_PrivateListedOnlyIfAdmitted ==
    \A p \in Tabs, s \in Sessions :
        (liveSessions[p][s].listed /\ sessions[s].is_private)
            => private_quiz_participants[<<s, Owner(p)>>] > 0

\* C26: for a waiting session with a scheduled start that a host view shows,
\* canStartSession answers true exactly when the phase computed at the same
\* instant is Live, which is when the host's badge reads "Ready to Start".
C26_CanStartIffLive ==
    \A h \in HostViews, s \in Sessions :
        (/\ hostView[h][s].present
         /\ hostView[h][s].status = "waiting"
         /\ hostView[h][s].scheduled_start # Null)
            => (canStartSession(hostView[h][s], now)
                    <=> (/\ computePhase(hostView[h][s], now) = "Live"
                         /\ getStatusBadge(hostView[h][s], now) = "Ready to Start"))

\* C30: a session that has a scheduled start and has been started carries a
\* started_at that is not earlier than its scheduled_start.
C30_StartedNotBeforeSchedule ==
    \A s \in Sessions :
        (sessions[s].scheduled_start # Null /\ sessions[s].started_at # Null)
            => sessions[s].started_at >= sessions[s].scheduled_start

\* C30 witness: a session scheduled to start after the first instant has been
\* started by a click the host view offered.
C30_Witness ==
    \E s \in Sessions :
        /\ sessions[s].present
        /\ sessions[s].scheduled_start > 1
        /\ sessions[s].status = "in_progress"
        /\ sessions[s].started_at >= sessions[s].scheduled_start
        /\ startWrites[s] > 0

C21_RefreshOnEveryExit ==
    [][\A p \in Tabs :
          (tab[p].pc \in {"idle", "pj_lookup", "pj_check", "pj_insert"}
              /\ tab'[p].pc = "pj_done")
                  => tab'[p].calls = Refreshes]_vars

\* C24: within one visit of the lobby onQuizStart is called at most once,
\* whether the timer, the broadcast or both trigger it, and however often the
\* broadcast arrives.
C24_EnterQuizOnce ==
    \A p \in Tabs : dash[p].quizStarts <= 1

\* C25: a student who is in the lobby of a session whose scheduled start has
\* come leaves the lobby for the quiz through the timer, with no broadcast
\* needed, unless the student leaves first.
C25_ScheduledStartReached ==
    \A p \in DashTabs :
        (/\ dash[p].lobby
         /\ dash[p].currentView = "live-lobby"
         /\ dash[p].currentLiveSession.scheduled_start # Null
         /\ now >= dash[p].currentLiveSession.scheduled_start)
            ~> (dash[p].currentView \in {"taking", "dashboard"})

\* C25 witness: a student who entered the lobby before the scheduled start
\* has been taken into the quiz by the timer, with no broadcast sent.
C25_Witness ==
    \E p \in DashTabs :
        LET session == dash[p].currentLiveSession IN
        /\ dash[p].currentView = "taking"
        /\ dash[p].timeUntilStart > 0
        /\ session.scheduled_start # Null
        /\ now >= session.scheduled_start
        /\ autoStarts[p][session.id] = 1
        /\ dash[p].quizStarts = 1
        /\ startSignals[session.id] = 0

\* C29: once the student is back on the dashboard, or in the quiz with the
\* lobby unmounted, no timer tick and no broadcast calls onQuizStart in that
\* tab: only a click of the student changes the view.
C29_NoStartAfterLeave ==
    [][\A p \in Tabs :
          (/\ \/ dash[p].currentView = "dashboard"
              \/ dash[p].currentView = "taking" /\ ~dash[p].lobby
           /\ studentOps' = studentOps)
              => /\ dash'[p].quizStarts = dash[p].quizStarts
                 /\ dash'[p].currentView = dash[p].currentView
                 /\ autoStarts'[p] = autoStarts[p]
                 /\ toast' # TabToast(p, "success")]_vars

\* C29 witness: the student has visited the lobby of a scheduled session and
\* is back on the dashboard; the start time has come and the host's
\* broadcast has been sent, and no onQuizStart is counted.
C29_Witness ==
    \E p \in DashTabs, s \in Sessions :
        /\ dash[p].currentView = "dashboard"
        /\ ~dash[p].lobby
        /\ tab[p].sid = s
        /\ studentOps >= 2
        /\ sessions[s].scheduled_start # Null
        /\ now > sessions[s].scheduled_start
        /\ startSignals[s] > 0
        /\ autoStarts[p][s] = 0
        /\ dash[p].quizStarts = 0

C22_ParticipantsDeduplicated ==
    [][\A p \in Tabs :
          (participants'[p] # participants[p] /\ realtimeChannel'[p].state = "joined")
              => /\ \A i, j \in 1..Len(participants'[p]) :
                        participants'[p][i].user_id = participants'[p][j].user_id => i = j
                 /\ {participants'[p][i].user_id : i \in 1..Len(participants'[p])}
                        = {Owner(k) : k \in presenceState'}]_vars

====
